---- MODULE Spec2Model ----
(***************************************************************************)
(* ImageModeller (src/src/modeller/ImageModeller.cpp): the interaction     *)
(* state machine that turns pointer events into a generalized cylinder.    *)
(*                                                                         *)
(* Numbers.  Device coordinates are integers.  A 2D vector that the code   *)
(* normalizes is kept as the primitive integer vector of its direction     *)
(* (Canon); the zero vector stays zero, as osg's normalize leaves it.      *)
(* A Segment2D is kept exactly as [mid, dir, len2, nan]: its midpoint, the *)
(* direction pt1 -> pt2, the squared length |pt2 - pt1|^2, and whether the *)
(* endpoints are NaN.  rotate() changes dir only, translate() mid only.    *)
(* A rotation by a NaN angle (tvec = 0 makes acos(0/0)) leaves every        *)
(* coordinate NaN; the midpoint of such a segment, the vector from it to   *)
(* the mouse and the normal derived from that vector are NaN as well.      *)
(***************************************************************************)
EXTENDS Integers, Sequences, FiniteSets, TLC

\* ------------------------------------------------------------------ bounds
MaxVertices == 4        \* clicks accepted while the vertex list is shorter
MaxComponents == 1      \* cylinders started in one run

\* pointer positions delivered by the windowing toolkit
Points == {<<0, 0>>, <<12, 0>>, <<12, 12>>}

\* normals the external circle estimator may return for circles[0]
FirstNormals == {<<1, 0, 1>>}

\* ------------------------------------------------------- vector arithmetic
Add(a, b) == <<a[1] + b[1], a[2] + b[2]>>
Sub(a, b) == <<a[1] - b[1], a[2] - b[2]>>
Dot(a, b) == a[1] * b[1] + a[2] * b[2]
Cross(a, b) == a[1] * b[2] - a[2] * b[1]
Dot3(a, b) == a[1] * b[1] + a[2] * b[2] + a[3] * b[3]
Neg3(a) == <<0 - a[1], 0 - a[2], 0 - a[3]>>
Abs(x) == IF x < 0 THEN 0 - x ELSE x

RECURSIVE Gcd(_, _)
Gcd(a, b) == IF b = 0 THEN a ELSE Gcd(b, a % b)

\* the direction of v as a primitive integer vector; zero stays zero
Canon(v) ==
    LET g == Gcd(Abs(v[1]), Abs(v[2]))
    IN  IF g = 0 THEN <<0, 0>> ELSE <<v[1] \div g, v[2] \div g>>

\* ------------------------------------------------------------- enumerations
mode_0 == "mode_0"
mode_1 == "mode_1"
mode_2 == "mode_2"
mode_3 == "mode_3"
piecewise_linear == "piecewise_linear"
continuous == "continuous"
sp_none == "none"
straight_planar == "straight_planar"
planar == "planar"

\* ------------------------------------------------------------ value objects
\* Segment2D from its two endpoints
SegmentOf(a, b) ==
    [mid |-> <<(a[1] + b[1]) \div 2, (a[2] + b[2]) \div 2>>,
     dir |-> Canon(Sub(b, a)),
     len2 |-> Dot(Sub(b, a), Sub(b, a)),
     nan |-> FALSE]

NewSegment2D == [mid |-> <<0, 0>>, dir |-> <<0, 0>>, len2 |-> 0, nan |-> FALSE]

\* a 2D vector, a 3D vector and a segment whose coordinates are NaN
NaN2 == <<>>
NaN3 == <<>>
NaNSegment2D == [mid |-> <<0, 0>>, dir |-> <<0, 0>>, len2 |-> 0, nan |-> TRUE]

NewEllipse2D == [p0 |-> <<0, 0>>, p1 |-> <<0, 0>>, p2 |-> <<0, 0>>]

NewCircle3D == [center |-> <<0, 0, 0>>, normal |-> <<0, 0, 0>>, radius2 |-> 0]

NoCylinder == [valid |-> FALSE, id |-> 0, sections |-> <<>>]

\* Segment2D::mid_point
mid_point(seg) == IF seg.nan THEN NaN2 ELSE seg.mid

\* Segment2D::translate
translate(seg, v) ==
    IF seg.nan \/ v = NaN2 THEN NaNSegment2D ELSE [seg EXCEPT !.mid = Add(seg.mid, v)]

\* Ellipse2D::update_major_axis
update_major_axis(e, a, b) == [e EXCEPT !.p0 = a, !.p1 = b]

\* Ellipse2D::update_minor_axis
update_minor_axis(e, p) == [e EXCEPT !.p2 = p]

\* ------------------------------------------------ image-guided refinement
\* largest n with n*n*b <= a (a >= 0, b > 0): floor of sqrt(a/b)
RECURSIVE FloorRootFrom(_, _, _)
FloorRootFrom(n, a, b) ==
    IF (n + 1) * (n + 1) * b > a THEN n ELSE FloorRootFrom(n + 1, a, b)

FloorRoot(a, b) == FloorRootFrom(0, a, b)

\* least n with n*n*b >= a: ceiling of sqrt(a/b)
CeilRoot(a, b) ==
    LET f == FloorRoot(a, b) IN IF f * f * b = a THEN f ELSE f + 1

\* static_cast<int>(m + sign * sqrt(a/b)): truncation toward zero
TruncOffset(m, sign, a, b) ==
    LET lo == IF sign >= 0 THEN FloorRoot(a, b) ELSE 0 - CeilRoot(a, b)
        hi == IF sign >= 0 THEN CeilRoot(a, b) ELSE 0 - FloorRoot(a, b)
    IN  IF m + lo >= 0 THEN m + lo ELSE m + hi

\* static_cast<int>(x * pct / 100): truncation toward zero
TruncScale(x, pct) ==
    IF x >= 0 THEN (x * pct) \div 100 ELSE 0 - (((0 - x) * pct) \div 100)

\* the pixel of an endpoint of seg: side = -1 for pt1, +1 for pt2
\*   pt = mid + side * dir * sqrt(len2 / (4 * dir.dir))
Pixel(seg, side) ==
    LET d == seg.dir
        dd == Dot(d, d)
        coord(i) ==
            IF dd = 0 \/ d[i] = 0 THEN seg.mid[i]
            ELSE TruncOffset(seg.mid[i], side * d[i], d[i] * d[i] * seg.len2, 4 * dd)
    IN  <<coord(1), coord(2)>>

\* OsgWxGLCanvas::UsrDeviceToLogical of an unscrolled, unscaled canvas
ViewOrigin == <<0, 0>>
UsrDeviceToLogical(p) == Add(p, ViewOrigin)

\* m_rect: Rectangle2D(0, 0, width - 1, height - 1) of the loaded image
ImageRect == [x1 |-> 0, y1 |-> 0, x2 |-> 15, y2 |-> 15]

InRect(p) ==
    /\ ImageRect.x1 <= p[1] /\ p[1] <= ImageRect.x2
    /\ ImageRect.y1 <= p[2] /\ p[2] <= ImageRect.y2

Clamp(x, lo, hi) == IF x < lo THEN lo ELSE IF x > hi THEN hi ELSE x

\* Rectangle2D::intersect(p, end): whether the ray meets the image
intersect(p, end) == InRect(p) \/ InRect(end)

\* the end of the ray after clipping to the image
ClipEnd(end) ==
    <<Clamp(end[1], ImageRect.x1, ImageRect.x2), Clamp(end[2], ImageRect.y1, ImageRect.y2)>>

\* what the pixel-sampling service answers for the four rays of one event:
\* val[i] is the sample found along ray i (0: nothing), pval the image value
\* at the untouched endpoints
RayResults ==
    { [val |-> <<0, 0, 0, 0>>, pval |-> 0],
      [val |-> <<1, 0, 0, 0>>, pval |-> 0],
      [val |-> <<0, 0, 0, 1>>, pval |-> 0],
      [val |-> <<1, 1, 0, 0>>, pval |-> 0] }

\* the segment with pt1 moved to p and pt2 := pt2 + (pt1 - p)
MirrorFirst(seg, p) ==
    LET v == Sub(seg.mid, p)
    IN  [seg EXCEPT !.dir = Canon(v), !.len2 = 4 * Dot(v, v)]

\* the segment with pt2 moved to p and pt1 := pt1 + (pt2 - p)
MirrorSecond(seg, p) ==
    LET v == Sub(p, seg.mid)
    IN  [seg EXCEPT !.dir = Canon(v), !.len2 = 4 * Dot(v, v)]

\* the four ray ends around the pixels p0, p1 for the casting vector dv
RayEnds(p0, p1, dv) == <<Add(p0, dv), Sub(p0, dv), Sub(p1, dv), Add(p1, dv)>>

\* the literal 0.35 of the binary-image path, in hundredths
BinaryScalePercent == 35

\* m_scale_factor(0.35) of the constructor, in hundredths
InitialScalePercent == 35

\* the step and the limits of IncrementScaleFactor / DecrementScaleFactor,
\* in hundredths: += 0.05 while below 1, -= 0.05 while above 0.1
ScaleStepPercent == 5
ScaleUpperPercent == 100
ScaleLowerPercent == 10

\* the casting vector: the segment p0 -> p1 scaled by pct hundredths
CastingVector(p0, p1, pct) ==
    <<TruncScale(p1[1] - p0[1], pct), TruncScale(p1[2] - p0[2], pct)>>

\* for each of the four rays, whether it meets the image at all
RaysCast(p0, p1, ends) ==
    [i \in 1..4 |-> intersect(IF i <= 2 THEN p0 ELSE p1, ends[i])]

\* step 4 and 5 of the binary path: hit_result[i] and hit[i] are the answers
\* of the four casts around the pixels p0 and p1
BinaryHitAnalysis(seg, p0, p1, hit_result, hit) ==
    LET p0_hit == UsrDeviceToLogical(
                      IF hit_result[1] /\ hit_result[2] THEN p0
                      ELSE IF hit_result[1] THEN hit[1]
                      ELSE IF hit_result[2] THEN hit[2]
                      ELSE p0)
        p1_hit == UsrDeviceToLogical(
                      IF hit_result[3] /\ hit_result[4] THEN p1
                      ELSE IF hit_result[3] THEN hit[3]
                      ELSE IF hit_result[4] THEN hit[4]
                      ELSE p1)
        any0 == hit_result[1] \/ hit_result[2]
        any1 == hit_result[3] \/ hit_result[4]
    IN  IF any0 /\ any1 THEN MirrorFirst(seg, p0_hit)
        ELSE IF any0 /\ ~any1 THEN MirrorFirst(seg, p0_hit)
        ELSE IF ~any0 /\ any1 THEN MirrorSecond(seg, p1_hit)
        ELSE seg

\* step 3 of the binary path: the four casts
BinaryRayCasts(seg, ray, p0, p1, ends) ==
    BinaryHitAnalysis(seg, p0, p1,
                      [i \in 1..4 |-> RaysCast(p0, p1, ends)[i] /\ ray.val[i] > 0],
                      [i \in 1..4 |-> ClipEnd(ends[i])])

BinaryProfileMatch(seg, ray, p0, p1) ==
    BinaryRayCasts(seg, ray, p0, p1, RayEnds(p0, p1, CastingVector(p0, p1, BinaryScalePercent)))

ray_cast_within_binary_image_for_profile_match(seg, ray) ==
    IF seg.nan THEN seg
    ELSE BinaryProfileMatch(seg, ray, UsrDeviceToLogical(Pixel(seg, -1)),
                            UsrDeviceToLogical(Pixel(seg, 1)))

\* step 4 and 5 of the gradient path: hit_val[i] and hit_idx[i] are the
\* answers of the four casts, p0val and p1val the image values at p0 and p1
GradientHitAnalysis(seg, p0, p1, hit_val, hit_idx, p0val, p1val) ==
    LET p0_updated == hit_val[1] > p0val \/ hit_val[2] > p0val
        p0_hit == UsrDeviceToLogical(
                      IF hit_val[1] > p0val /\ hit_val[2] > p0val
                      THEN (IF hit_val[1] > hit_val[2] THEN hit_idx[1] ELSE hit_idx[2])
                      ELSE IF hit_val[1] > p0val THEN hit_idx[1]
                      ELSE IF hit_val[2] > p0val THEN hit_idx[2]
                      ELSE p0)
        p1_updated == hit_val[3] > p1val \/ hit_val[4] > p1val
        p1_hit == UsrDeviceToLogical(
                      IF hit_val[3] > p1val /\ hit_val[4] > p1val
                      THEN (IF hit_val[3] > hit_val[4] THEN hit_idx[3] ELSE hit_idx[4])
                      ELSE IF hit_val[3] > p1val THEN hit_idx[3]
                      ELSE IF hit_val[4] > p1val THEN hit_idx[4]
                      ELSE p1)
    IN  IF p0_updated /\ p1_updated THEN MirrorFirst(seg, p0_hit)
        ELSE IF p0_updated THEN MirrorFirst(seg, p0_hit)
        ELSE IF p1_updated THEN MirrorSecond(seg, p1_hit)
        ELSE seg

\* step 3 of the gradient path: hit_val[i] is written only when the ray meets
\* the image and is read regardless, so ray.val[i] stands for the sample or
\* for the stale value; hit_idx[i] is default-constructed when the ray misses
GradientRayCasts(seg, ray, p0, p1, ends) ==
    GradientHitAnalysis(seg, p0, p1, ray.val,
                        [i \in 1..4 |-> IF RaysCast(p0, p1, ends)[i]
                                        THEN ClipEnd(ends[i]) ELSE <<0, 0>>],
                        ray.pval, ray.pval)

\* scale is m_scale_factor, in hundredths, when the method is called
GradientProfileMatch(seg, ray, p0, p1, scale) ==
    GradientRayCasts(seg, ray, p0, p1, RayEnds(p0, p1, CastingVector(p0, p1, scale)))

ray_cast_within_gradient_image_for_profile_match(seg, ray, scale) ==
    IF seg.nan THEN seg
    ELSE GradientProfileMatch(seg, ray, UsrDeviceToLogical(Pixel(seg, -1)),
                              UsrDeviceToLogical(Pixel(seg, 1)), scale)

\* a mirror update that moves one endpoint and leaves the other where it was
update_dynamic_segment_with_mirror_point_OneEnd(pts, pt, first) ==
    IF first THEN <<pt, pts[2]>> ELSE <<pts[1], pt>>

\* update_dynamic_segment_with_mirror_point on the endpoints <<pt1, pt2>>
update_dynamic_segment_with_mirror_point(pts, pt, first) ==
    IF first
    THEN <<pt, Add(pts[2], Sub(pts[1], pt))>>
    ELSE <<Add(pts[1], Sub(pts[2], pt)), pt>>

\* ------------------------------------------------------------------- state
VARIABLES
    m_mode,             \* drawing_mode
    m_left_click,       \* latch set by OnLeftClick
    m_right_click,      \* latch set by OnRightClick
    m_vertices,         \* osg::Vec2dArray of clicked points
    m_mouse,            \* last pointer position handed to model_update
    spd_mode,           \* spine_drawing_mode
    sp_constraints,     \* spine_constraints
    m_bimg_exists,      \* a binary companion image was found at construction
    m_scale_factor,     \* length of the cast rays, in hundredths of the segment
    m_first_ellipse,    \* base ellipse
    m_lsegment,         \* last committed segment
    m_dsegment,         \* dynamic (preview) segment
    m_tvec,             \* vector from the last segment's midpoint to the mouse
    m_first_circle,
    m_last_circle,
    m_gcyl,             \* the cylinder being modelled (or the last one modelled)
    component_id_source,\* static counter of GenerateComponentId
    solver,             \* component ids held by the ModelSolver
    h_event,            \* history: the pointer handler or deletion that ran last
    h_mode,             \* history: m_mode when that handler was entered
    h_commits,          \* history: left-click commits since m_gcyl was created
    h_removed,          \* history: sections deleted since m_gcyl was created
    h_selects,          \* history: the applications of select_parallel_circle
    h_calls             \* history: the applications of the other functions checked alone

pvars == <<m_mode, m_left_click, m_right_click, m_vertices, m_mouse, spd_mode,
           sp_constraints, m_bimg_exists, m_scale_factor, m_first_ellipse, m_lsegment, m_dsegment,
           m_tvec, m_first_circle, m_last_circle, m_gcyl, component_id_source,
           solver>>

vars == <<m_mode, m_left_click, m_right_click, m_vertices, m_mouse, spd_mode,
          sp_constraints, m_bimg_exists, m_scale_factor, m_first_ellipse, m_lsegment, m_dsegment,
          m_tvec, m_first_circle, m_last_circle, m_gcyl, component_id_source,
          solver, h_event, h_mode, h_commits, h_removed, h_selects, h_calls>>

\* the program state as one record, so that the methods are functions on it
St ==
    [m_mode |-> m_mode, m_left_click |-> m_left_click,
     m_right_click |-> m_right_click, m_vertices |-> m_vertices,
     m_mouse |-> m_mouse, spd_mode |-> spd_mode,
     sp_constraints |-> sp_constraints, m_bimg_exists |-> m_bimg_exists,
     m_scale_factor |-> m_scale_factor,
     m_first_ellipse |-> m_first_ellipse, m_lsegment |-> m_lsegment,
     m_dsegment |-> m_dsegment, m_tvec |-> m_tvec,
     m_first_circle |-> m_first_circle, m_last_circle |-> m_last_circle,
     m_gcyl |-> m_gcyl, component_id_source |-> component_id_source,
     solver |-> solver]

\* ------------------------------------------------------ camera and depth
\* m_pp->near, m_pp->far
near == 1
far == 3

\* m_fixed_depth = -(near + far) / 2.0
m_fixed_depth == 0 - ((near + far) \div 2)

\* ---------------------------------------------------------------- methods
\* a reset that forgets to clear the vertex list
Reset2DDrawingInterface_KeepsVertices(s) ==
    [s EXCEPT !.m_mode = mode_0,
              !.m_left_click = FALSE,
              !.m_right_click = FALSE]

Reset2DDrawingInterface(s) ==
    [s EXCEPT !.m_mode = mode_0,
              !.m_left_click = FALSE,
              !.m_right_click = FALSE,
              !.m_vertices = <<>>]

\* GeneralizedCylinder::DeleteLastSection: refused when one section is left
GcylDeleteLastSection(g) ==
    IF Len(g.sections) > 1
    THEN [g EXCEPT !.sections = SubSeq(g.sections, 1, Len(g.sections) - 1)]
    ELSE g

\* a deletion that rewinds the last circle to the new tail
DeleteLastSection_RewindsLastCircle(s) ==
    IF s.m_gcyl.valid
    THEN [s EXCEPT !.m_gcyl = GcylDeleteLastSection(s.m_gcyl),
                   !.m_last_circle =
                       GcylDeleteLastSection(s.m_gcyl).sections[
                           Len(GcylDeleteLastSection(s.m_gcyl).sections)]]
    ELSE s

\* a deletion that drops the tail without asking the cylinder
DeleteLastSection_Unchecked(s) ==
    IF s.m_gcyl.valid
    THEN [s EXCEPT !.m_gcyl.sections =
                       SubSeq(s.m_gcyl.sections, 1, Len(s.m_gcyl.sections) - 1)]
    ELSE s

DeleteLastSection(s) ==
    IF s.m_gcyl.valid
    THEN [s EXCEPT !.m_gcyl = GcylDeleteLastSection(s.m_gcyl)]
    ELSE s

\* a deletion of the model that restarts the id counter
DeleteModel_RestartsIds(s) == [s EXCEPT !.solver = {}, !.component_id_source = 0]

\* ModelSolver::DeleteAllComponents
DeleteModel(s) == [s EXCEPT !.solver = {}]

\* ModelSolver::DeleteSelectedComponents
DeleteSelectedComopnents(s, ids) == [s EXCEPT !.solver = s.solver \ ids]

GenerateComponentId(s) == [s EXCEPT !.component_id_source = s.component_id_source + 1]

\* an ellipse update that forgets the upper end of the guide line
calculate_ellipse_NoUpperBound(s) ==
    LET e == s.m_first_ellipse
        vec_mj == Sub(e.p1, e.p0)
        n == <<0 - vec_mj[2], vec_mj[1]>>
        den == Dot(n, n)
        pt_0x2 == Sub(Add(e.p0, e.p1), n)
        vec1x2 == Sub(<<2 * s.m_mouse[1], 2 * s.m_mouse[2]>>, pt_0x2)
        num == Dot(vec1x2, n)
        proj_point == <<(pt_0x2[1] * den + num * n[1]) \div (2 * den),
                        (pt_0x2[2] * den + num * n[2]) \div (2 * den)>>
    IN  IF den > 0 /\ num >= 0
        THEN [s EXCEPT !.m_first_ellipse = update_minor_axis(e, proj_point)]
        ELSE s

\* the minor-axis guide runs from pt_0 = center - n/2 to pt_1 = center + n/2,
\* n = (-b, a) for the major axis (a, b); ratio = num / (2 * den)
calculate_ellipse(s) ==
    LET e == s.m_first_ellipse
        vec_mj == Sub(e.p1, e.p0)
        n == <<0 - vec_mj[2], vec_mj[1]>>
        den == Dot(n, n)
        pt_0x2 == Sub(Add(e.p0, e.p1), n)
        vec1x2 == Sub(<<2 * s.m_mouse[1], 2 * s.m_mouse[2]>>, pt_0x2)
        num == Dot(vec1x2, n)
        proj_point == <<(pt_0x2[1] * den + num * n[1]) \div (2 * den),
                        (pt_0x2[2] * den + num * n[2]) \div (2 * den)>>
    IN  IF den > 0 /\ num >= 0 /\ num <= 2 * den
        THEN [s EXCEPT !.m_first_ellipse = update_minor_axis(e, proj_point)]
        ELSE s

\* the second of the twin solutions of the conic back-projection
TwinNormal(n) == <<0 - n[1], 0 - n[2], n[3]>>

\* CircleEstimator::estimate_3d_circles_with_fixed_depth: the candidates for
\* ellipse e when the estimator answers with normal n for circles[0]
estimate_3d_circles_with_fixed_depth(e, n, desired_depth) ==
    LET c == <<(e.p0[1] + e.p1[1]) \div 2, (e.p0[2] + e.p1[2]) \div 2, desired_depth>>
        r2 == Dot(Sub(e.p1, e.p0), Sub(e.p1, e.p0))
    IN  <<[center |-> c, normal |-> n, radius2 |-> r2],
          [center |-> c, normal |-> TwinNormal(n), radius2 |-> r2]>>

\* a selection that takes circles[0] when the test fails
select_first_3d_circle_Inverted(s, circles) ==
    LET c == circles[1]
        ctr == <<c.center[1], c.center[2]>>
        vec1 == <<c.normal[1], c.normal[2]>>
        vec2 == Sub(ctr, s.m_first_ellipse.p2)
    IN  IF Dot(vec1, vec2) < 0 THEN 2 ELSE 1

select_first_3d_circle(s, circles) ==
    LET c == circles[1]
        ctr == <<c.center[1], c.center[2]>>
        vec1 == <<c.normal[1], c.normal[2]>>
        vec2 == Sub(ctr, s.m_first_ellipse.p2)
    IN  IF Dot(vec1, vec2) < 0 THEN 1 ELSE 2

\* the index (1 or 2) of the candidate whose normal is more nearly parallel
\* to the last circle's
select_parallel_circle(s, circles) ==
    LET a == Dot3(s.m_last_circle.normal, circles[1].normal)
        b == Dot3(s.m_last_circle.normal, circles[2].normal)
    IN  IF Abs(a) > Abs(b) THEN 1 ELSE 2

estimate_first_circle_under_persective_projection(s, ext) ==
    LET circles == estimate_3d_circles_with_fixed_depth(s.m_first_ellipse, ext.n, m_fixed_depth)
        first == IF ext.count = 2 THEN circles[select_first_3d_circle(s, circles)]
                 ELSE IF ext.count = 1 THEN circles[1]
                 ELSE s.m_first_circle
    IN  [s EXCEPT !.m_first_circle = first, !.m_last_circle = first]

\* m_fixed_depth / -m_pp->near, exact for the camera modelled
PerspectiveRatio == m_fixed_depth \div (0 - near)

\* an estimate that rescales the radius and forgets the centre
estimate_3d_circle_under_orthographic_projection_RadiusOnly(circle) ==
    [circle EXCEPT !.radius2 = circle.radius2 * PerspectiveRatio * PerspectiveRatio]

\* the perspective scaling of the circle that the orthographic estimator
\* answered: radius *= ratio, center *= ratio
estimate_3d_circle_under_orthographic_projection(circle) ==
    [circle EXCEPT !.radius2 = circle.radius2 * PerspectiveRatio * PerspectiveRatio,
                   !.center = <<circle.center[1] * PerspectiveRatio,
                                circle.center[2] * PerspectiveRatio,
                                circle.center[3] * PerspectiveRatio>>]

estimate_first_circle_under_orthographic_projection(s, circle) ==
    [s EXCEPT !.m_first_circle = estimate_3d_circle_under_orthographic_projection(circle),
              !.m_last_circle = estimate_3d_circle_under_orthographic_projection(circle)]

\* the radius and the centre that the orthographic section estimate assigns
\* to the last circle: half_length * ratio and (mid, -near) * ratio
OrthographicSectionCircle(s) ==
    [s.m_last_circle EXCEPT
        !.radius2 = (s.m_lsegment.len2 * PerspectiveRatio * PerspectiveRatio) \div 4,
        !.center = <<s.m_lsegment.mid[1] * PerspectiveRatio,
                     s.m_lsegment.mid[2] * PerspectiveRatio,
                     (0 - near) * PerspectiveRatio>>]

\* GeneralizedCylinder::AddPlanarSection
AddPlanarSection(g, circle) == [g EXCEPT !.sections = Append(g.sections, circle)]

\* new GeneralizedCylinder(id, circle, rtype)
NewGeneralizedCylinder(id, circle) == [valid |-> TRUE, id |-> id, sections |-> <<circle>>]

\* an initialization that appends the base circle to the cylinder at hand
initialize_spine_drawing_mode_ReusesCylinder(s, ext) ==
    LET s1 == [s EXCEPT !.m_vertices[3] = s.m_first_ellipse.p2,
                        !.m_lsegment = SegmentOf(s.m_first_ellipse.p0, s.m_first_ellipse.p1)]
        s2 == estimate_first_circle_under_persective_projection(s1, ext)
        s3 == GenerateComponentId(s2)
    IN  IF s.m_gcyl.valid
        THEN [s3 EXCEPT !.m_gcyl = AddPlanarSection(s.m_gcyl, s3.m_first_circle)]
        ELSE [s3 EXCEPT !.m_gcyl = NewGeneralizedCylinder(s3.component_id_source, s3.m_first_circle)]

initialize_spine_drawing_mode(s, ext) ==
    LET s1 == [s EXCEPT !.m_vertices[3] = s.m_first_ellipse.p2,
                        !.m_lsegment = SegmentOf(s.m_first_ellipse.p0, s.m_first_ellipse.p1),
                        !.m_gcyl = NoCylinder]
        s2 == estimate_first_circle_under_persective_projection(s1, ext)
        s3 == GenerateComponentId(s2)
    IN  [s3 EXCEPT !.m_gcyl = NewGeneralizedCylinder(s3.component_id_source, s3.m_first_circle)]

\* Segment2D::rotate by (angle - HALF_PI) or (HALF_PI - angle), angle being the
\* angle between tvec and the segment: the result is perpendicular to tvec
rotate_to_bend(seg, tvec) ==
    IF seg.nan \/ tvec = NaN2 \/ tvec = <<0, 0>> THEN NaNSegment2D
    ELSE IF seg.len2 = 0 THEN seg
    ELSE IF Cross(seg.dir, tvec) > 0
         THEN [seg EXCEPT !.dir = Canon(<<tvec[2], 0 - tvec[1]>>)]
         ELSE [seg EXCEPT !.dir = Canon(<<0 - tvec[2], tvec[1]>>)]

\* the vector from the last committed segment's midpoint to the mouse
MouseVector(s) ==
    IF mid_point(s.m_lsegment) = NaN2 THEN NaN2
    ELSE Sub(s.m_mouse, mid_point(s.m_lsegment))

\* a dynamic segment that is rotated whatever the spine constraint is
MovedSegment_AlwaysRotates(s, tvec) ==
    translate(rotate_to_bend(s.m_lsegment, tvec), tvec)

\* the dynamic segment of update_dynamic_segment before the ray casts: the
\* last committed segment translated by tvec, rotated first unless the spine
\* constraint is straight_planar
MovedSegment(s, tvec) ==
    IF s.sp_constraints = straight_planar
    THEN translate(s.m_lsegment, tvec)
    ELSE translate(rotate_to_bend(s.m_lsegment, tvec), tvec)

update_dynamic_segment(s, ext) ==
    LET tvec == MouseVector(s)
        moved == MovedSegment(s, tvec)
        snapped == IF s.m_bimg_exists
                   THEN ray_cast_within_binary_image_for_profile_match(moved, ext.ray)
                   ELSE ray_cast_within_gradient_image_for_profile_match(
                            moved, ext.ray, s.m_scale_factor)
    IN  [s EXCEPT !.m_tvec = tvec, !.m_dsegment = snapped]

\* a section estimate that keeps the depth the last circle already had
add_planar_section_DepthKept(s) ==
    LET t == IF s.m_tvec = NaN2 THEN NaN2 ELSE Canon(s.m_tvec)
        n0 == IF t = NaN2 THEN NaN3 ELSE <<t[1], t[2], 0>>
        back == s.m_gcyl.sections[Len(s.m_gcyl.sections)]
        n == IF n0 # NaN3 /\ back.normal # NaN3 /\ Dot3(n0, back.normal) < 0
             THEN Neg3(n0) ELSE n0
        circle == [center |-> <<s.m_lsegment.mid[1], s.m_lsegment.mid[2],
                                s.m_last_circle.center[3]>>,
                   normal |-> n,
                   radius2 |-> s.m_lsegment.len2]
    IN  [s EXCEPT !.m_tvec = t,
                  !.m_last_circle = circle,
                  !.m_gcyl = AddPlanarSection(s.m_gcyl, circle)]

add_planar_section_to_the_generalized_cylinder_under_perspective_projection(s) ==
    LET t == IF s.m_tvec = NaN2 THEN NaN2 ELSE Canon(s.m_tvec)
        n0 == IF t = NaN2 THEN NaN3 ELSE <<t[1], t[2], 0>>
        back == s.m_gcyl.sections[Len(s.m_gcyl.sections)]
        n == IF n0 # NaN3 /\ back.normal # NaN3 /\ Dot3(n0, back.normal) < 0
             THEN Neg3(n0) ELSE n0
        circle == [center |-> <<s.m_lsegment.mid[1], s.m_lsegment.mid[2], m_fixed_depth>>,
                   normal |-> n,
                   radius2 |-> s.m_lsegment.len2]
    IN  [s EXCEPT !.m_tvec = t,
                  !.m_last_circle = circle,
                  !.m_gcyl = AddPlanarSection(s.m_gcyl, circle)]

\* a right-click branch that resets without committing the last section
EndCylinder_NoCommit(s) ==
    Reset2DDrawingInterface([s EXCEPT !.m_right_click = FALSE, !.m_lsegment = s.m_dsegment])

\* the right-click branch of mode_3, piecewise-linear
EndCylinder(s) ==
    LET s1 == [s EXCEPT !.m_right_click = FALSE, !.m_lsegment = s.m_dsegment]
        s2 == add_planar_section_to_the_generalized_cylinder_under_perspective_projection(s1)
    IN  Reset2DDrawingInterface(s2)

\* a left-click branch that appends a section for the old committed segment
CommitSection_KeepsLastSegment(s) ==
    add_planar_section_to_the_generalized_cylinder_under_perspective_projection(
        [s EXCEPT !.m_left_click = FALSE])

\* the left-click branch of mode_3, piecewise-linear
CommitSection(s) ==
    LET s1 == [s EXCEPT !.m_left_click = FALSE, !.m_lsegment = s.m_dsegment]
    IN  add_planar_section_to_the_generalized_cylinder_under_perspective_projection(s1)

\* mode_3 with spd_mode == continuous: the whole branch is commented out
ContinuousSpineUpdate(s) == s

\* a preview branch that overwrites the committed segment with the preview
PiecewiseLinearSpineUpdate_MoveCommits(s, ext) ==
    LET s1 == update_dynamic_segment(s, ext)
    IN  IF s1.m_right_click THEN EndCylinder(s1)
        ELSE IF s1.m_left_click THEN CommitSection(s1)
        ELSE [s1 EXCEPT !.m_lsegment = s1.m_dsegment]

PiecewiseLinearSpineUpdate(s, ext) ==
    LET s1 == update_dynamic_segment(s, ext)
    IN  IF s1.m_right_click THEN EndCylinder(s1)
        ELSE IF s1.m_left_click THEN CommitSection(s1)
        ELSE s1

\* mode_0: the first click
Mode0Update(s) ==
    IF s.m_left_click
    THEN [s EXCEPT !.m_left_click = FALSE, !.m_mode = mode_1]
    ELSE s

\* a mode_1 branch that leaves the mode on a pointer-move as well
Mode1Update_MoveAdvances(s) ==
    IF s.m_left_click
    THEN [s EXCEPT !.m_left_click = FALSE,
                   !.m_first_ellipse =
                       update_major_axis(s.m_first_ellipse, s.m_vertices[1], s.m_vertices[2]),
                   !.m_mode = mode_2]
    ELSE [s EXCEPT !.m_mode = mode_2]

\* mode_1: the second click fixes the major axis
Mode1Update(s) ==
    IF s.m_left_click
    THEN [s EXCEPT !.m_left_click = FALSE,
                   !.m_first_ellipse =
                       update_major_axis(s.m_first_ellipse, s.m_vertices[1], s.m_vertices[2]),
                   !.m_mode = mode_2]
    ELSE s

\* a mode_2 branch that forgets to enter mode_3
Mode2Update_StaysInMode2(s, ext) ==
    LET s1 == calculate_ellipse(s)
    IN  IF s1.m_left_click
        THEN initialize_spine_drawing_mode([s1 EXCEPT !.m_left_click = FALSE], ext)
        ELSE s1

\* mode_2: the third click fixes the base ellipse
Mode2Update(s, ext) ==
    LET s1 == calculate_ellipse(s)
    IN  IF s1.m_left_click
        THEN [initialize_spine_drawing_mode([s1 EXCEPT !.m_left_click = FALSE], ext)
                  EXCEPT !.m_mode = mode_3]
        ELSE s1

model_update(s, ext) ==
    IF s.m_mode = mode_0 THEN Mode0Update(s)
    ELSE IF s.m_mode = mode_1 THEN Mode1Update(s)
    ELSE IF s.m_mode = mode_2 THEN Mode2Update(s, ext)
    ELSE IF s.spd_mode = continuous THEN ContinuousSpineUpdate(s)
    ELSE IF s.spd_mode = piecewise_linear THEN PiecewiseLinearSpineUpdate(s, ext)
    ELSE s

OnLeftClick(s, p, ext) ==
    model_update([s EXCEPT !.m_left_click = TRUE,
                           !.m_mouse = p,
                           !.m_vertices = Append(s.m_vertices, p)], ext)

\* a right-click handler without the mode_3 guard
OnRightClick_Unguarded(s, p, ext) ==
    model_update([s EXCEPT !.m_right_click = TRUE,
                           !.m_mouse = p,
                           !.m_vertices = Append(s.m_vertices, p)], ext)

OnRightClick(s, p, ext) ==
    IF s.m_mode = mode_3
    THEN model_update([s EXCEPT !.m_right_click = TRUE,
                                !.m_mouse = p,
                                !.m_vertices = Append(s.m_vertices, p)], ext)
    ELSE s

\* a pointer-move handler that records the position as a vertex
OnMouseMove_RecordsVertex(s, p, ext) ==
    IF s.m_mode # mode_0
    THEN model_update([s EXCEPT !.m_mouse = p,
                                !.m_vertices = Append(s.m_vertices, p)], ext)
    ELSE s

OnMouseMove(s, p, ext) ==
    IF s.m_mode # mode_0
    THEN model_update([s EXCEPT !.m_mouse = p], ext)
    ELSE s

\* the spine drawing mode is chosen by the operator between two cylinders
SetSpineDrawingMode(s, m) == [s EXCEPT !.spd_mode = m]

\* ------------------------------------------------------------ environment
NoRay == [val |-> <<0, 0, 0, 0>>, pval |-> 0]

\* what the external collaborators may answer during one event in state s
Externals(s) ==
    IF s.m_mode = mode_2
    THEN [count : 0..2, n : FirstNormals, ray : {NoRay}]
    ELSE IF s.m_mode = mode_3 /\ s.spd_mode = piecewise_linear
    THEN [count : {0}, n : {<<0, 0, 1>>}, ray : RayResults]
    ELSE [count : {0}, n : {<<0, 0, 1>>}, ray : {NoRay}]

\* IncrementScaleFactor: one step up while the factor is below 1
IncrementScaleFactor(s) ==
    IF s.m_scale_factor < ScaleUpperPercent
    THEN [s EXCEPT !.m_scale_factor = s.m_scale_factor + ScaleStepPercent]
    ELSE s

\* DecrementScaleFactor: one step down while the factor is above 0.1
DecrementScaleFactor(s) ==
    IF s.m_scale_factor > ScaleLowerPercent
    THEN [s EXCEPT !.m_scale_factor = s.m_scale_factor - ScaleStepPercent]
    ELSE s

\* ------------------------------------------------------------------ actions
Init ==
    /\ m_mode = mode_0
    /\ m_left_click = FALSE
    /\ m_right_click = FALSE
    /\ m_vertices = <<>>
    /\ m_mouse = <<0, 0>>
    /\ spd_mode = piecewise_linear
    /\ sp_constraints = sp_none
    /\ m_bimg_exists \in BOOLEAN
    /\ m_scale_factor = InitialScalePercent
    /\ m_first_ellipse = NewEllipse2D
    /\ m_lsegment = NewSegment2D
    /\ m_dsegment = NewSegment2D
    /\ m_tvec = <<0, 0>>
    /\ m_first_circle = NewCircle3D
    /\ m_last_circle = NewCircle3D
    /\ m_gcyl = NoCylinder
    /\ component_id_source = 0
    /\ solver = {}
    /\ h_event = "other"
    /\ h_mode = mode_0
    /\ h_commits = 0
    /\ h_removed = 0
    /\ h_selects = <<>>
    /\ h_calls = <<>>

\* the program moves to state t by handler ev
Becomes(t, ev) ==
    /\ m_mode' = t.m_mode
    /\ m_left_click' = t.m_left_click
    /\ m_right_click' = t.m_right_click
    /\ m_vertices' = t.m_vertices
    /\ m_mouse' = t.m_mouse
    /\ spd_mode' = t.spd_mode
    /\ sp_constraints' = t.sp_constraints
    /\ m_bimg_exists' = t.m_bimg_exists
    /\ m_scale_factor' = t.m_scale_factor
    /\ m_first_ellipse' = t.m_first_ellipse
    /\ m_lsegment' = t.m_lsegment
    /\ m_dsegment' = t.m_dsegment
    /\ m_tvec' = t.m_tvec
    /\ m_first_circle' = t.m_first_circle
    /\ m_last_circle' = t.m_last_circle
    /\ m_gcyl' = t.m_gcyl
    /\ component_id_source' = t.component_id_source
    /\ solver' = t.solver
    /\ h_event' = ev
    /\ h_mode' = m_mode
    /\ h_commits' =
           IF t.component_id_source # component_id_source THEN 0
           ELSE IF ev = "OnLeftClick" /\ Len(t.m_gcyl.sections) > Len(m_gcyl.sections)
           THEN h_commits + 1
           ELSE h_commits
    /\ h_removed' =
           IF t.component_id_source # component_id_source THEN 0
           ELSE IF Len(t.m_gcyl.sections) < Len(m_gcyl.sections) THEN h_removed + 1
           ELSE h_removed
    /\ h_selects' = h_selects    \* no operation calls select_parallel_circle
    /\ h_calls' = h_calls

LeftClick ==
    /\ Len(m_vertices) < MaxVertices
    /\ m_mode = mode_0 => component_id_source < MaxComponents
    /\ \E p \in Points : \E ext \in Externals(St) :
           Becomes(OnLeftClick(St, p, ext), "OnLeftClick")

RightClick ==
    /\ Len(m_vertices) <= MaxVertices
    /\ \E p \in Points : \E ext \in Externals(St) :
           Becomes(OnRightClick(St, p, ext), "OnRightClick")

MouseMove ==
    \E p \in Points : \E ext \in Externals(St) :
        Becomes(OnMouseMove(St, p, ext), "OnMouseMove")

ResetInterface == Becomes(Reset2DDrawingInterface(St), "other")

DeleteSection == Becomes(DeleteLastSection(St), "DeleteLastSection")

DeleteAll == Becomes(DeleteModel(St), "other")

DeleteSelected ==
    \E ids \in SUBSET (1..component_id_source) :
        Becomes(DeleteSelectedComopnents(St, ids), "other")

ChooseSpineDrawingMode ==
    /\ m_mode = mode_0
    /\ \E m \in {piecewise_linear, continuous} :
           Becomes(SetSpineDrawingMode(St, m), "other")

Next ==
    \/ LeftClick
    \/ RightClick
    \/ MouseMove
    \/ ResetInterface
    \/ DeleteSection
    \/ DeleteAll
    \/ DeleteSelected
    \/ ChooseSpineDrawingMode

Spec == Init /\ [][Next]_vars

\* ------------------------------------------------- several cylinders in a row
\* The same operations with a pointer that visits two positions, an estimator
\* that always finds both circles and no image hit, so that a run can start
\* MaxIds cylinders.
MaxIds == 3             \* cylinders started in one run of SpecIds

IdPoints == {<<0, 0>>, <<12, 12>>}

TwoCircles == [count |-> 2, n |-> <<1, 0, 1>>, ray |-> NoRay]

LeftClickIds ==
    /\ Len(m_vertices) < MaxVertices
    /\ m_mode = mode_0 => component_id_source < MaxIds
    /\ \E p \in IdPoints : Becomes(OnLeftClick(St, p, TwoCircles), "OnLeftClick")

RightClickIds ==
    /\ Len(m_vertices) <= MaxVertices
    /\ \E p \in IdPoints : Becomes(OnRightClick(St, p, TwoCircles), "OnRightClick")

NextIds ==
    \/ LeftClickIds
    \/ RightClickIds
    \/ ResetInterface
    \/ DeleteSection
    \/ DeleteAll
    \/ DeleteSelected

SpecIds == Init /\ [][NextIds]_vars

\* the same with pointer-moves between the clicks
MouseMoveIds ==
    \E p \in IdPoints : Becomes(OnMouseMove(St, p, TwoCircles), "OnMouseMove")

NextCylinders ==
    \/ LeftClickIds
    \/ RightClickIds
    \/ MouseMoveIds
    \/ ResetInterface
    \/ DeleteSection
    \/ DeleteAll
    \/ DeleteSelected

SpecCylinders == Init /\ [][NextCylinders]_vars

\* ------------------------------------------ select_parallel_circle by itself
\* select_parallel_circle has no caller; it is applied here to every pair of
\* candidate normals and every reference normal of CandidateNormals, once for
\* each order of the pair.
CandidateNormals ==
    {<<1, 0, 0>>, <<-1, 0, 0>>, <<0, 1, 0>>, <<0, -1, 0>>, <<0, 0, 1>>, <<0, 0, -1>>}

CircleWithNormal(n) == [NewCircle3D EXCEPT !.normal = n]

ApplySelectParallelCircle ==
    /\ h_selects = <<>>
    /\ \E n0 \in CandidateNormals : \E n1 \in CandidateNormals : \E r \in CandidateNormals :
           LET s == [St EXCEPT !.m_last_circle = CircleWithNormal(r)]
           IN  h_selects' =
                   <<[circles |-> <<n0, n1>>,
                      ref |-> r,
                      index |-> select_parallel_circle(
                                    s, <<CircleWithNormal(n0), CircleWithNormal(n1)>>),
                      swapped |-> select_parallel_circle(
                                    s, <<CircleWithNormal(n1), CircleWithNormal(n0)>>)]>>
    /\ UNCHANGED <<pvars, h_event, h_mode, h_commits, h_removed, h_calls>>

NextSelect == ApplySelectParallelCircle

SpecSelect == Init /\ [][NextSelect]_vars

\* ------------------------------------------ orthographic estimation by itself
\* initialize_spine_drawing_mode is only ever called for the perspective
\* projection and the orthographic section estimate only from the disabled
\* continuous branch; both are applied here to the answers of OrthoCircles
\* and to the segments between two pointer positions.
OrthoCircles ==
    [center : {<<x, y, z>> : x \in {-1, 0, 2}, y \in {0, 3}, z \in {0 - near, -3}},
     normal : {<<0, 0, 1>>, <<1, 0, 1>>, <<0, 1, 0>>},
     radius2 : {1, 4, 9}]

ApplyOrthographicEstimate ==
    /\ h_calls = <<>>
    /\ \E c \in OrthoCircles :
           LET t == estimate_first_circle_under_orthographic_projection(St, c)
           IN  /\ m_first_circle' = t.m_first_circle
               /\ m_last_circle' = t.m_last_circle
               /\ h_calls' = <<[op |-> "estimate", arg |-> c, out |-> t.m_first_circle]>>
    /\ UNCHANGED <<m_mode, m_left_click, m_right_click, m_vertices, m_mouse, spd_mode,
                   sp_constraints, m_bimg_exists, m_scale_factor, m_first_ellipse, m_lsegment, m_dsegment,
                   m_tvec, m_gcyl, component_id_source, solver,
                   h_event, h_mode, h_commits, h_removed, h_selects>>

ApplyOrthographicSection ==
    /\ h_calls = <<>>
    /\ \E a \in Points : \E b \in Points :
           LET s == [St EXCEPT !.m_lsegment = SegmentOf(a, b)]
           IN  /\ m_lsegment' = s.m_lsegment
               /\ m_last_circle' = OrthographicSectionCircle(s)
               /\ h_calls' = <<[op |-> "section", arg |-> s.m_lsegment,
                                out |-> OrthographicSectionCircle(s)]>>
    /\ UNCHANGED <<m_mode, m_left_click, m_right_click, m_vertices, m_mouse, spd_mode,
                   sp_constraints, m_bimg_exists, m_scale_factor, m_first_ellipse, m_dsegment,
                   m_tvec, m_first_circle, m_gcyl, component_id_source, solver,
                   h_event, h_mode, h_commits, h_removed, h_selects>>

NextOrtho ==
    \/ ApplyOrthographicEstimate
    \/ ApplyOrthographicSection

SpecOrtho == Init /\ [][NextOrtho]_vars

\* ------------------------------------------- update_dynamic_segment by itself
\* update_dynamic_segment applied to the segments between two points of
\* EndPoints, for every pointer position, spine constraint and combination
\* of ray answers; update_dynamic_segment_with_mirror_point, which has no
\* caller, applied to the same endpoints.
EndPoints == {<<x, y>> : x \in {0, 6, 12}, y \in {0, 6, 12}}

SpineConstraints == {sp_none, straight_planar, planar}

AllRays == [val : {<<a, b, c, d>> : a \in 0..1, b \in 0..1, c \in 0..1, d \in 0..1},
            pval : {0}]

ApplyUpdateDynamicSegment ==
    /\ h_calls = <<>>
    /\ \E a \in EndPoints : \E b \in EndPoints : \E p \in Points :
       \E c \in SpineConstraints : \E ray \in AllRays :
           LET s == [St EXCEPT !.m_lsegment = SegmentOf(a, b),
                               !.m_mouse = p,
                               !.sp_constraints = c]
               t == update_dynamic_segment(s, [count |-> 0, n |-> <<0, 0, 1>>, ray |-> ray])
           IN  /\ m_lsegment' = s.m_lsegment
               /\ m_mouse' = p
               /\ sp_constraints' = c
               /\ m_tvec' = t.m_tvec
               /\ m_dsegment' = t.m_dsegment
               /\ h_calls' = <<[op |-> "update", ray |-> ray,
                                moved |-> MovedSegment(s, MouseVector(s)),
                                out |-> t.m_dsegment]>>
    /\ UNCHANGED <<m_mode, m_left_click, m_right_click, m_vertices, spd_mode,
                   m_bimg_exists, m_scale_factor, m_first_ellipse, m_first_circle, m_last_circle,
                   m_gcyl, component_id_source, solver,
                   h_event, h_mode, h_commits, h_removed, h_selects>>

ApplyMirrorPoint ==
    /\ h_calls = <<>>
    /\ \E a \in EndPoints : \E b \in EndPoints : \E p \in EndPoints : \E first \in BOOLEAN :
           LET out == update_dynamic_segment_with_mirror_point(<<a, b>>, p, first)
           IN  /\ m_dsegment' = SegmentOf(out[1], out[2])
               /\ h_calls' = <<[op |-> "mirror", pts |-> <<a, b>>, pt |-> p,
                                first |-> first, out |-> out]>>
    /\ UNCHANGED <<m_mode, m_left_click, m_right_click, m_vertices, m_mouse, spd_mode,
                   sp_constraints, m_bimg_exists, m_scale_factor, m_first_ellipse, m_lsegment,
                   m_tvec, m_first_circle, m_last_circle, m_gcyl, component_id_source,
                   solver, h_event, h_mode, h_commits, h_removed, h_selects>>

NextRefine ==
    \/ ApplyUpdateDynamicSegment
    \/ ApplyMirrorPoint

SpecRefine == Init /\ [][NextRefine]_vars

\* ------------------------------------------------------------------ claims
Clicks == {"OnLeftClick", "OnRightClick"}

Sections == m_gcyl.sections

Dist2(a, b) == Dot(Sub(a, b), Sub(a, b))

\* the squared-distance threshold of continuous spine sampling
SpineSampleThreshold == 100

\* the last handler was a right-click that found the machine in mode_3,
\* piecewise-linear, and no section of the cylinder was deleted meanwhile
EndedByRightClick ==
    /\ h_event = "OnRightClick"
    /\ h_mode = mode_3
    /\ spd_mode = piecewise_linear

\* C1 (as stated): in piecewise-linear mode, N left-clicks followed by one
\* right-click in mode_3 leave a cylinder of exactly N + 1 cross-sections.
C1_SectionsAreNPlus1 ==
    (EndedByRightClick /\ h_removed = 0) => Len(Sections) = h_commits + 1

\* C1 (amended): in piecewise-linear mode, N left-clicks followed by one
\* right-click in mode_3 leave a cylinder of exactly N + 2 cross-sections:
\* the base section, one per left-click and one for the right-click.
C1_SectionsAreNPlus2 ==
    (EndedByRightClick /\ h_removed = 0) => Len(Sections) = h_commits + 2

C1_Witness ==
    /\ EndedByRightClick
    /\ h_removed = 0
    /\ h_commits = 1
    /\ Len(Sections) = 3

\* C2: from mode_0 the first left-click enters mode_1, the second mode_2, and
\* the third leaves the machine in mode_3 with a newly created cylinder (it
\* carries the id just generated) that holds exactly one cross-section.
C2_ThreeClicksReachMode3 ==
    h_event = "OnLeftClick" =>
        /\ h_mode = mode_0 => m_mode = mode_1 /\ Len(m_vertices) = 1
        /\ h_mode = mode_1 => m_mode = mode_2 /\ Len(m_vertices) = 2
        /\ h_mode = mode_2 =>
               /\ m_mode = mode_3
               /\ Len(m_vertices) = 3
               /\ m_gcyl.valid
               /\ m_gcyl.id = component_id_source
               /\ h_commits = 0
               /\ h_removed = 0
               /\ Len(Sections) = 1

C2_Witness ==
    /\ h_event = "OnLeftClick"
    /\ h_mode = mode_2
    /\ m_mode = mode_3
    /\ Len(Sections) = 1

\* C3: a right-click in mode_3 (piecewise-linear) leaves the machine in mode_0
\* with an empty vertex list and both latch flags false.
C3_RightClickResets ==
    EndedByRightClick =>
        /\ m_mode = mode_0
        /\ m_vertices = <<>>
        /\ ~m_left_click
        /\ ~m_right_click

C3_Witness ==
    /\ EndedByRightClick
    /\ m_mode = mode_0
    /\ m_vertices = <<>>
    /\ Len(Sections) >= 2

\* C4: a third left-click whose first-circle estimation reports 0 solutions
\* creates no cylinder, consumes no component id and leaves mode_2 and the
\* first and last circle unchanged.
C4_ZeroSolutionsLeaveStateUnchanged ==
    [][\A p \in Points : \A n \in FirstNormals :
        (/\ m_mode = mode_2
         /\ Becomes(OnLeftClick(St, p, [count |-> 0, n |-> n, ray |-> NoRay]), "OnLeftClick"))
        => (/\ m_mode' = mode_2
            /\ m_gcyl' = m_gcyl
            /\ component_id_source' = component_id_source
            /\ m_first_circle' = m_first_circle
            /\ m_last_circle' = m_last_circle)]_vars

\* a step that changes the drawing mode the way the cycle allows
ModeStepAlongCycle ==
    \/ m_mode' = m_mode
    \/ m_mode = mode_0 /\ m_mode' = mode_1 /\ h_event' = "OnLeftClick"
    \/ m_mode = mode_1 /\ m_mode' = mode_2 /\ h_event' = "OnLeftClick"
    \/ m_mode = mode_2 /\ m_mode' = mode_3 /\ h_event' = "OnLeftClick"
    \/ m_mode = mode_3 /\ m_mode' = mode_0 /\ h_event' \in Clicks

\* C5: apart from an external Reset2DDrawingInterface, the mode changes only
\* along mode_0 -> mode_1 -> mode_2 -> mode_3 -> mode_0, each of the first
\* three steps by a left-click and the last one by a click.
C5_ModeCycle == [][Becomes(Reset2DDrawingInterface(St), "other") \/ ModeStepAlongCycle]_vars

C5_Witness ==
    /\ h_event = "OnRightClick"
    /\ h_mode = mode_3
    /\ m_mode = mode_0
    /\ component_id_source >= 1

\* C6: a pointer-move changes nothing of the program state in mode_0, and in
\* every mode leaves the mode, the vertex list, the last committed segment and
\* the cylinder unchanged.
C6_MoveCommitsNothing ==
    [][h_event' = "OnMouseMove" =>
        /\ m_mode = mode_0 => UNCHANGED pvars
        /\ UNCHANGED <<m_mode, m_vertices, m_lsegment, m_gcyl>>]_vars

C6_Witness ==
    /\ h_event = "OnMouseMove"
    /\ h_mode = mode_3
    /\ spd_mode = piecewise_linear
    /\ m_dsegment # m_lsegment

\* C7: a right-click in mode_0, mode_1 or mode_2 changes nothing of the
\* program state.
C7_RightClickIgnored ==
    [][(h_event' = "OnRightClick" /\ m_mode # mode_3) => UNCHANGED pvars]_vars

C7_Witness ==
    /\ h_event = "OnRightClick"
    /\ h_mode = mode_2
    /\ m_mode = mode_2

\* C8: when a click takes the machine from mode_3 to mode_0, the completed
\* cylinder is held by the model registry afterwards.
C8_CompletedCylinderRegistered ==
    (h_event \in Clicks /\ h_mode = mode_3 /\ m_mode = mode_0) => m_gcyl.id \in solver

\* C9: in continuous spine mode a left-click in mode_3 leaves the machine in
\* mode_0 with the vertex list cleared and the left-click latch false.
C9_ContinuousLeftClickEnds ==
    (h_event = "OnLeftClick" /\ h_mode = mode_3 /\ spd_mode = continuous) =>
        /\ m_mode = mode_0
        /\ m_vertices = <<>>
        /\ ~m_left_click

\* C10: in continuous spine mode in mode_3, a pointer-move at squared distance
\* <= 100 from the last committed profile's reference point appends no
\* section, and one at squared distance > 100 appends exactly one.
C10_ContinuousSampling ==
    [][(h_event' = "OnMouseMove" /\ m_mode = mode_3 /\ spd_mode = continuous) =>
        IF Dist2(m_mouse', mid_point(m_lsegment)) > SpineSampleThreshold
        THEN /\ Len(m_gcyl'.sections) = Len(m_gcyl.sections) + 1
             /\ SubSeq(m_gcyl'.sections, 1, Len(m_gcyl.sections)) = m_gcyl.sections
        ELSE m_gcyl'.sections = m_gcyl.sections]_vars

\* whether the dot product of two normals is >= 0 (a NaN product is not)
DotNonNegative(a, b) == a # NaN3 /\ b # NaN3 /\ Dot3(a, b) >= 0

\* C11: the normal of every section appended in mode_3 has a dot product
\* >= 0 with the normal of the section that was the tail before the append;
\* sections leave the cylinder at the tail only, so this is the same as
\* every two consecutive sections having normals with a dot product >= 0.
C11_NormalSignContinuity ==
    \A i \in 2..Len(Sections) : DotNonNegative(Sections[i].normal, Sections[i - 1].normal)

\* C16: when a right-click in mode_3 has completed the cylinder, the last
\* committed segment, the preview segment and the first circle are back at
\* their initial values, as mode, vertex list and latches are.
C16_CompletionResetsSession ==
    (EndedByRightClick /\ m_mode = mode_0) =>
        /\ m_vertices = <<>>
        /\ m_lsegment = NewSegment2D
        /\ m_dsegment = NewSegment2D
        /\ m_first_circle = NewCircle3D

\* a normal is kept as the integer vector of its direction: it stands for a
\* unit vector unless it is the zero vector or NaN
IsUnitNormal(n) == n # NaN3 /\ n # <<0, 0, 0>>

\* C17: every cross-section held by the cylinder has a unit-length normal.
C17_UnitNormals ==
    \A i \in 1..Len(Sections) : IsUnitNormal(Sections[i].normal)

\* C18: the fixed depth is -(near + far) / 2, and every section appended in
\* mode_3 has its centre z at the fixed depth.
C18_FixedDepth ==
    /\ 2 * m_fixed_depth = 0 - (near + far)
    /\ \A i \in 2..Len(Sections) : Sections[i].center[3] = m_fixed_depth

C18_Witness ==
    /\ h_event = "OnLeftClick"
    /\ h_mode = mode_3
    /\ Len(Sections) = 2
    /\ Sections[1].center[3] # m_fixed_depth
    /\ Sections[2].center[3] = m_fixed_depth

\* the projection ratio of pointer p onto the minor-axis guide of ellipse e,
\* as the pair <<numerator, denominator>>; the denominator is 0 (the ratio
\* is NaN) when the major axis has no length
ProjectionRatio(e, p) ==
    LET vec_mj == Sub(e.p1, e.p0)
        n == <<0 - vec_mj[2], vec_mj[1]>>
        pt_0x2 == Sub(Add(e.p0, e.p1), n)
    IN  <<Dot(Sub(<<2 * p[1], 2 * p[2]>>, pt_0x2), n), 2 * Dot(n, n)>>

RatioOutsideUnitInterval(e, p) ==
    LET r == ProjectionRatio(e, p)
    IN  r[2] = 0 \/ r[1] < 0 \/ r[1] > r[2]

\* C14: in mode_2, a pointer-move or left-click at a position whose projection
\* ratio onto the minor-axis guide is outside [0,1] leaves the base ellipse
\* as it was.
C14_RatioOutsideKeepsEllipse ==
    [][(/\ m_mode = mode_2
        /\ h_event' \in {"OnMouseMove", "OnLeftClick"}
        /\ RatioOutsideUnitInterval(m_first_ellipse, m_mouse'))
       => m_first_ellipse' = m_first_ellipse]_vars

C14_Witness ==
    /\ h_event = "OnMouseMove"
    /\ h_mode = mode_2
    /\ m_mode = mode_2
    /\ ProjectionRatio(m_first_ellipse, m_mouse)[2] > 0
    /\ ProjectionRatio(m_first_ellipse, m_mouse)[1] > ProjectionRatio(m_first_ellipse, m_mouse)[2]

C12_ParallelSelectionAtEverySection ==
    [][(m_mode = mode_3 /\ Len(m_gcyl'.sections) > Len(m_gcyl.sections))
       => Len(h_selects') = Len(h_selects) + 1]_vars

\* C13: the id counter never decreases, the cylinder's id changes only when
\* the base ellipse is finalized (mode_2 -> mode_3), and the new id is
\* greater than the counter was, hence than every id assigned before;
\* deletions and resets neither lower the counter nor change an id.
C13_IdsStrictlyIncrease ==
    [][/\ component_id_source' >= component_id_source
       /\ m_gcyl'.id <= component_id_source'
       /\ IF m_mode = mode_2 /\ m_mode' = mode_3
          THEN m_gcyl'.id = component_id_source' /\ m_gcyl'.id > component_id_source
          ELSE m_gcyl'.id = m_gcyl.id /\ component_id_source' = component_id_source]_vars

C13_Witness ==
    /\ h_event = "OnLeftClick"
    /\ h_mode = mode_2
    /\ m_mode = mode_3
    /\ m_gcyl.id = 3
    /\ component_id_source = 3

\* the dot product that select_first_3d_circle tests, for circle c and
\* ellipse e: projected normal . (projected centre - points[2])
ProjectedDot(c, e) ==
    Dot(<<c.normal[1], c.normal[2]>>, Sub(<<c.center[1], c.center[2]>>, e.p2))

\* the third left-click at p when the estimator answers k circles, normal n
ThirdClick(p, k, n) ==
    /\ m_mode = mode_2
    /\ Becomes(OnLeftClick(St, p, [count |-> k, n |-> n, ray |-> NoRay]), "OnLeftClick")

C20_SelectionIgnoresOrder ==
    \A i \in 1..Len(h_selects) :
        LET e == h_selects[i]
        IN  e.circles[e.index] = <<e.circles[2], e.circles[1]>>[e.swapped]

\* ------------------------------------------- claims on image-guided refinement
\* the answers of the collaborators during a mode_3 event whose rays find ray
RayAnswers(ray) == [count |-> 0, n |-> <<0, 0, 1>>, ray |-> ray]

\* this step is a pointer handler run at the position m_mouse' with answers ext
PointerStep(ext) ==
    \/ Becomes(OnLeftClick(St, m_mouse', ext), "OnLeftClick")
    \/ Becomes(OnRightClick(St, m_mouse', ext), "OnRightClick")
    \/ Becomes(OnMouseMove(St, m_mouse', ext), "OnMouseMove")

\* this step is a pointer handler that refines the dynamic segment with ray
RefinementStep(ray) ==
    /\ m_mode = mode_3
    /\ spd_mode = piecewise_linear
    /\ PointerStep(RayAnswers(ray))

\* the dynamic segment this step hands to the ray casts
Unrefined ==
    MovedSegment([St EXCEPT !.m_mouse = m_mouse'], MouseVector([St EXCEPT !.m_mouse = m_mouse']))

\* the percentage that truncates the rays, and the value a sample must exceed
\* to count as a hit, on the path taken for the loaded images
ScalePercent == IF m_bimg_exists THEN BinaryScalePercent ELSE m_scale_factor
HitThreshold(ray) == IF m_bimg_exists THEN 0 ELSE ray.pval

\* the pixels of the two endpoints of seg and the ends of the four rays
EndPixel(seg, side) == UsrDeviceToLogical(Pixel(seg, side))
CastEnds(seg) ==
    RayEnds(EndPixel(seg, -1), EndPixel(seg, 1),
            CastingVector(EndPixel(seg, -1), EndPixel(seg, 1), ScalePercent))

\* ray i (1: pt1 inward, 2: pt1 outward, 3: pt2 inward, 4: pt2 outward) is
\* cast and its sample counts as a hit
ReportsHit(seg, ray, i) ==
    /\ RaysCast(EndPixel(seg, -1), EndPixel(seg, 1), CastEnds(seg))[i]
    /\ ray.val[i] > HitThreshold(ray)

\* where ray i hits
HitPoint(seg, i) == UsrDeviceToLogical(ClipEnd(CastEnds(seg)[i]))

\* C21: when the inward and the outward ray of an endpoint both report a hit,
\* the refined segment has that endpoint at the inward hit (for the second
\* endpoint: when the first endpoint reports no hit, which has precedence).
C21_BothHitsPreferInward ==
    [][\A ray \in RayResults :
        (RefinementStep(ray) /\ ~Unrefined.nan) =>
            /\ (ReportsHit(Unrefined, ray, 1) /\ ReportsHit(Unrefined, ray, 2))
                   => m_dsegment' = MirrorFirst(Unrefined, HitPoint(Unrefined, 1))
            /\ (/\ ~ReportsHit(Unrefined, ray, 1) /\ ~ReportsHit(Unrefined, ray, 2)
                /\ ReportsHit(Unrefined, ray, 3) /\ ReportsHit(Unrefined, ray, 4))
                   => m_dsegment' = MirrorSecond(Unrefined, HitPoint(Unrefined, 3))]_vars

\* no ray of this event reports a hit
NoRayReportsHit(seg, ray) == \A i \in 1..4 : ~ReportsHit(seg, ray, i)

\* C22: when none of the four rays reports a hit, the dynamic segment leaves
\* the refinement as it entered it, on the binary and on the gradient path.
C22_NoHitKeepsSegment ==
    [][\A ray \in RayResults :
        (RefinementStep(ray) /\ NoRayReportsHit(Unrefined, ray))
            => m_dsegment' = Unrefined]_vars

\* C23: the perspective rescale multiplies the circle's radius and every
\* coordinate of its centre by m_fixed_depth / -near and leaves the normal
\* unchanged, so a centre at z = -near ends at z = m_fixed_depth; the
\* orthographic section estimate scales half the segment's length and the
\* point (midpoint, -near) by the same factor.
C23_RescaleByDepthOverNear ==
    \A i \in 1..Len(h_calls) :
        LET e == h_calls[i]
        IN  /\ e.op = "estimate" =>
                   /\ e.out.radius2 * near * near
                          = e.arg.radius2 * m_fixed_depth * m_fixed_depth
                   /\ \A k \in 1..3 :
                          e.out.center[k] * (0 - near) = e.arg.center[k] * m_fixed_depth
                   /\ e.out.normal = e.arg.normal
                   /\ e.arg.center[3] = 0 - near => e.out.center[3] = m_fixed_depth
            /\ e.op = "section" =>
                   /\ 4 * e.out.radius2 * near * near
                          = e.arg.len2 * m_fixed_depth * m_fixed_depth
                   /\ \A k \in 1..2 :
                          e.out.center[k] * (0 - near) = e.arg.mid[k] * m_fixed_depth
                   /\ e.out.center[3] = m_fixed_depth

C23_Witness ==
    /\ Len(h_calls) = 1
    /\ h_calls[1].op = "estimate"
    /\ h_calls[1].arg.center = <<2, 3, 0 - near>>
    /\ h_calls[1].out.center[3] = m_fixed_depth
    /\ h_calls[1].out.center # h_calls[1].arg.center
    /\ h_calls[1].out.radius2 > h_calls[1].arg.radius2
    /\ m_first_circle = h_calls[1].out

\* C24: a left-click in mode_3 (piecewise-linear) leaves the last committed
\* segment equal to the dynamic segment, which was computed for the click's
\* own position (its midpoint is the click, unless it is NaN); exactly one
\* section is appended to the cylinder, the click is appended to the vertex
\* list and the mode is still mode_3.
C24_LeftClickCommitsDynamicProfile ==
    [][(h_event' = "OnLeftClick" /\ m_mode = mode_3 /\ spd_mode = piecewise_linear) =>
        /\ m_lsegment' = m_dsegment'
        /\ m_dsegment'.nan \/ mid_point(m_dsegment') = m_mouse'
        /\ m_gcyl'.id = m_gcyl.id
        /\ Len(m_gcyl'.sections) = Len(m_gcyl.sections) + 1
        /\ SubSeq(m_gcyl'.sections, 1, Len(m_gcyl.sections)) = m_gcyl.sections
        /\ m_vertices' = Append(m_vertices, m_mouse')
        /\ m_mode' = mode_3]_vars

C24_Witness ==
    /\ h_event = "OnLeftClick"
    /\ h_mode = mode_3
    /\ spd_mode = piecewise_linear
    /\ m_mode = mode_3
    /\ Len(Sections) = 2
    /\ Len(m_vertices) = 4
    /\ ~m_lsegment.nan
    /\ m_lsegment = m_dsegment
    /\ m_lsegment.mid = m_mouse
    /\ m_lsegment.mid # SegmentOf(m_first_ellipse.p0, m_first_ellipse.p1).mid

\* the last operation was one of the three pointer handlers
AfterPointerHandler == h_event \in {"OnLeftClick", "OnRightClick", "OnMouseMove"}

\* C25: after OnLeftClick, OnRightClick or OnMouseMove has returned, both
\* latch flags are false, in every drawing mode and in both spine modes.
C25_LatchesClearedAfterHandler ==
    AfterPointerHandler => (~m_left_click /\ ~m_right_click)

\* C26: between event handlers the vertex list has 0 entries in mode_0, 1 in
\* mode_1, 2 in mode_2 and, in mode_3 with the piecewise-linear spine mode,
\* 3 plus the number of left-click commits; so vertices 0, 1 and 2 exist
\* wherever model_update and initialize_spine_drawing_mode read them.
C26_VertexCount ==
    /\ m_mode = mode_0 => Len(m_vertices) = 0
    /\ m_mode = mode_1 => Len(m_vertices) = 1
    /\ m_mode = mode_2 => Len(m_vertices) = 2
    /\ (m_mode = mode_3 /\ spd_mode = piecewise_linear) => Len(m_vertices) = 3 + h_commits

C26_Witness ==
    /\ h_event = "OnMouseMove"
    /\ m_mode = mode_3
    /\ spd_mode = piecewise_linear
    /\ h_commits = 1
    /\ h_removed = 1
    /\ Len(m_vertices) = 4

\* C27: the cylinder at hand gains a section only by a left- or right-click
\* that starts in mode_3, one section at the tail, and only while it is the
\* cylinder created last; a new cylinder appears only by the left-click that
\* goes from mode_2 to mode_3; in mode_0, mode_1 and mode_2 no click or
\* pointer-move adds a section to the completed cylinder.
C27_AppendScope ==
    [][/\ (m_gcyl'.id = m_gcyl.id /\ Len(m_gcyl'.sections) > Len(m_gcyl.sections)) =>
              /\ h_event' \in Clicks
              /\ m_mode = mode_3
              /\ m_gcyl.id = component_id_source
              /\ Len(m_gcyl'.sections) = Len(m_gcyl.sections) + 1
              /\ SubSeq(m_gcyl'.sections, 1, Len(m_gcyl.sections)) = m_gcyl.sections
       /\ m_gcyl'.id # m_gcyl.id =>
              /\ h_event' = "OnLeftClick"
              /\ m_mode = mode_2
              /\ m_mode' = mode_3
              /\ m_gcyl'.id = component_id_source'
              /\ Len(m_gcyl'.sections) = 1
       /\ (m_mode # mode_3 /\ m_gcyl'.id = m_gcyl.id) =>
              Len(m_gcyl'.sections) <= Len(m_gcyl.sections)]_vars

C27_Witness ==
    /\ h_event = "OnMouseMove"
    /\ m_mode = mode_2
    /\ m_gcyl.valid
    /\ m_gcyl.id = 1
    /\ component_id_source = 1
    /\ Len(Sections) = 3

\* the normal of a section whose spine runs from the midpoint of seg to p,
\* before its sign is matched to the previous section
SpineNormal(seg, p) ==
    IF seg.nan THEN NaN3
    ELSE <<Canon(Sub(p, seg.mid))[1], Canon(Sub(p, seg.mid))[2], 0>>

SameOrOpposite(n, m) == n = m \/ (m # NaN3 /\ n = Neg3(m))

\* the cylinder has lost its tail and m_last_circle is still the lost section
LastCircleDeleted ==
    /\ h_event = "DeleteLastSection"
    /\ m_gcyl.valid
    /\ m_last_circle # m_gcyl.sections[Len(m_gcyl.sections)]

\* C28: DeleteLastSection leaves the mode, the vertex list, the latches, the
\* last committed segment and the last circle unchanged, and the whole state
\* when there is no cylinder; so the section appended by the next click in
\* mode_3 still takes its spine direction from the midpoint of the deleted
\* section's segment.
C28_DeleteLastSectionFrame ==
    [][/\ h_event' = "DeleteLastSection" =>
              /\ UNCHANGED <<m_mode, m_vertices, m_left_click, m_right_click,
                             m_lsegment, m_last_circle>>
              /\ ~m_gcyl.valid => UNCHANGED pvars
       /\ (/\ LastCircleDeleted
           /\ h_event' \in Clicks
           /\ m_mode = mode_3
           /\ spd_mode = piecewise_linear) =>
              /\ Len(m_gcyl'.sections) = Len(m_gcyl.sections) + 1
              /\ SameOrOpposite(m_gcyl'.sections[Len(m_gcyl'.sections)].normal,
                                SpineNormal(m_lsegment, m_mouse'))
              /\ ~m_lsegment.nan =>
                     m_lsegment.mid = <<m_last_circle.center[1], m_last_circle.center[2]>>]_vars

C28_Witness ==
    /\ h_event = "OnRightClick"
    /\ h_mode = mode_3
    /\ m_mode = mode_0
    /\ h_commits = 1
    /\ h_removed = 1
    /\ Len(Sections) = 2
    /\ Sections[2].normal # NaN3
    /\ Sections[2].normal # <<0, 0, 0>>

\* the ray casts of the path taken for the loaded images
RefineSegment(seg, ray) ==
    IF m_bimg_exists
    THEN ray_cast_within_binary_image_for_profile_match(seg, ray)
    ELSE ray_cast_within_gradient_image_for_profile_match(seg, ray, m_scale_factor)

\* the answers ray with nothing found by the two rays of the second endpoint
SecondEndSilent(ray) == [ray EXCEPT !.val[3] = 0, !.val[4] = 0]

\* the points an endpoint can be moved to
MirrorPoints(seg) ==
    {HitPoint(seg, i) : i \in 1..4}
        \cup {EndPixel(seg, -1), EndPixel(seg, 1), UsrDeviceToLogical(<<0, 0>>)}

\* C29: update_dynamic_segment_with_mirror_point replaces (pt1, pt2) by
\* (p, pt1 + pt2 - p) or by (pt1 + pt2 - p, p), so pt1 + pt2 is kept; the
\* ray casts on the binary and on the gradient path either leave the segment
\* alone or replace it by such a mirror image, so its midpoint is kept; and
\* when the first endpoint reports a hit the result is what it would be had
\* the second endpoint's rays found nothing.
C29_MidpointPreserved ==
    \A i \in 1..Len(h_calls) :
        LET e == h_calls[i]
        IN  /\ e.op = "mirror" =>
                   /\ Add(e.out[1], e.out[2]) = Add(e.pts[1], e.pts[2])
                   /\ e.out = IF e.first
                              THEN <<e.pt, Sub(Add(e.pts[1], e.pts[2]), e.pt)>>
                              ELSE <<Sub(Add(e.pts[1], e.pts[2]), e.pt), e.pt>>
                   /\ SegmentOf(e.out[1], e.out[2]) =
                          IF e.first
                          THEN MirrorFirst(SegmentOf(e.pts[1], e.pts[2]), e.pt)
                          ELSE MirrorSecond(SegmentOf(e.pts[1], e.pts[2]), e.pt)
            /\ e.op = "update" =>
                   /\ mid_point(e.out) = mid_point(e.moved)
                   /\ e.out # e.moved =>
                          \E q \in MirrorPoints(e.moved) :
                              e.out \in {MirrorFirst(e.moved, q), MirrorSecond(e.moved, q)}
                   /\ (ReportsHit(e.moved, e.ray, 1) \/ ReportsHit(e.moved, e.ray, 2)) =>
                          e.out = RefineSegment(e.moved, SecondEndSilent(e.ray))

C29_Witness ==
    /\ Len(h_calls) = 1
    /\ h_calls[1].op = "update"
    /\ ReportsHit(h_calls[1].moved, h_calls[1].ray, 1)
    /\ ReportsHit(h_calls[1].moved, h_calls[1].ray, 4)
    /\ h_calls[1].out # h_calls[1].moved
    /\ h_calls[1].out = m_dsegment
    /\ mid_point(m_dsegment) = m_mouse
    /\ m_mouse # mid_point(m_lsegment)

\* seg is the last committed segment moved so that its midpoint is the mouse,
\* with its direction and length as they were
PureTranslation(seg) == seg = [m_lsegment EXCEPT !.mid = m_mouse]

\* C30 (as stated): the dynamic profile before refinement is a pure
\* translation of the last committed segment by (mouse - midpoint) when the
\* straight constraint is active, and it is anything else (a NaN profile
\* aside) only when a constraint other than none and straight is active.
C30_RotatedOnlyUnderBend ==
    \A i \in 1..Len(h_calls) :
        h_calls[i].op = "update" =>
            /\ sp_constraints = straight_planar => PureTranslation(h_calls[i].moved)
            /\ (~h_calls[i].moved.nan /\ ~PureTranslation(h_calls[i].moved)) =>
                   sp_constraints = planar

\* C30 (amended): the dynamic profile before refinement is a pure translation
\* of the last committed segment by (mouse - midpoint) when the constraint is
\* straight_planar; under every other constraint, none included, it keeps
\* its length, has its midpoint at the mouse and is perpendicular to
\* (mouse - midpoint), and it is NaN when the mouse is on the midpoint.
C30_RotatedUnlessStraight ==
    \A i \in 1..Len(h_calls) :
        h_calls[i].op = "update" =>
            /\ sp_constraints = straight_planar => PureTranslation(h_calls[i].moved)
            /\ sp_constraints # straight_planar =>
                   IF m_mouse = m_lsegment.mid
                   THEN h_calls[i].moved.nan
                   ELSE /\ ~h_calls[i].moved.nan
                        /\ h_calls[i].moved.mid = m_mouse
                        /\ h_calls[i].moved.len2 = m_lsegment.len2
                        /\ Dot(h_calls[i].moved.dir, Sub(m_mouse, m_lsegment.mid)) = 0
                        /\ m_lsegment.len2 > 0 => h_calls[i].moved.dir # <<0, 0>>

C30_Witness ==
    /\ Len(h_calls) = 1
    /\ h_calls[1].op = "update"
    /\ sp_constraints = straight_planar
    /\ m_lsegment.len2 > 0
    /\ m_mouse # m_lsegment.mid
    /\ h_calls[1].moved.mid = m_mouse
    /\ h_calls[1].moved.dir = m_lsegment.dir
    /\ Dot(m_lsegment.dir, Sub(m_mouse, m_lsegment.mid)) # 0

\* ------------------------------------------------- the scale factor by itself
\* the two scale-factor keys, and the ray casts of update_dynamic_segment
\* applied to the segments between two points of EndPoints for every
\* combination of ray answers, at whatever value the factor has by then.
ScaleUp == Becomes(IncrementScaleFactor(St), "other")

ScaleDown == Becomes(DecrementScaleFactor(St), "other")

ApplyProfileMatch ==
    /\ h_calls = <<>>
    /\ \E a \in EndPoints : \E b \in EndPoints : \E ray \in AllRays :
           LET seg == SegmentOf(a, b)
           IN  /\ m_dsegment' = RefineSegment(seg, ray)
               /\ h_calls' = <<[op |-> "cast", seg |-> seg,
                                scale |-> m_scale_factor,
                                ends |-> CastEnds(seg),
                                out |-> RefineSegment(seg, ray)]>>
    /\ UNCHANGED <<m_mode, m_left_click, m_right_click, m_vertices, m_mouse, spd_mode,
                   sp_constraints, m_bimg_exists, m_scale_factor, m_first_ellipse,
                   m_lsegment, m_tvec, m_first_circle, m_last_circle, m_gcyl,
                   component_id_source, solver,
                   h_event, h_mode, h_commits, h_removed, h_selects>>

NextScale ==
    \/ ScaleUp
    \/ ScaleDown
    \/ ApplyProfileMatch

SpecScale == Init /\ [][NextScale]_vars

\* the four rays around the endpoints of seg when they are truncated at
\* scale hundredths of the endpoint-to-endpoint vector
ScaledRays(seg, scale) ==
    RayEnds(EndPixel(seg, -1), EndPixel(seg, 1),
            CastingVector(EndPixel(seg, -1), EndPixel(seg, 1), scale))

\* C31 (as stated): the rays cast by image-guided refinement are truncated at
\* the scale factor, as the two keys have left it, times the
\* endpoint-to-endpoint vector, on the binary-image path as well as on the
\* gradient-image path.
C31_RaysTruncatedAtScaleFactor ==
    \A i \in 1..Len(h_calls) :
        h_calls[i].op = "cast" =>
            h_calls[i].ends = ScaledRays(h_calls[i].seg, h_calls[i].scale)

====
